---- MODULE Spec2Model ----
(***************************************************************************)
(* Model of the QA portal manifest generator (review/generate-manifest.py) *)
(* and of the pieces of review/server.py that touch the manifest.          *)
(*                                                                         *)
(* Decoded JSON/YAML values are tagged records, so that Python's dynamic   *)
(* checks (isinstance, .get on a non-dict, iterating None) can be modelled *)
(* as the code performs them:                                              *)
(*   [t |-> "str",  s  |-> "..."]      a string                            *)
(*   [t |-> "int",  n  |-> 3]          an integer                          *)
(*   [t |-> "date", d  |-> "..."]      a YAML date (not JSON-serialisable) *)
(*   [t |-> "none"]                    None / YAML null                    *)
(*   [t |-> "list", xs |-> <<...>>]    a list                              *)
(*   [t |-> "dict", kv |-> <<...>>]    a dict: <<key, value>> pairs in     *)
(*                                     document order                      *)
(***************************************************************************)
EXTENDS Integers, Sequences, FiniteSets, TLC

VARIABLES
    \* ---- extractor harness (SpecExtract) ----
    filepath,        \* the file handed to extract_narrative_items
    filepath2,       \* the same file after an edit of its text payload only
    items,           \* result of extract_narrative_items(filepath)
    items2,          \* result of extract_narrative_items(filepath2)
    raised,          \* an exception was raised (and caught) inside the extractor
    epc,             \* "ready" | "extracted"
    \* ---- generator run (Spec) ----
    pc,              \* position of main / generate_manifest
    argv,            \* value of --project ("none" for a direct call)
    projects,        \* generate_manifest's `projects` list
    pidx,            \* index of the current project_key in projects
    cidx,            \* index of the current category of the project
    files,           \* result of scan_directory for the current category
    fidx,            \* index of the current file in files
    assets,          \* assets list of the current category
    project_data,    \* project_data being built
    manifest,        \* manifest["projects"] (insertion ordered) and totalAssets
    total_assets,    \* running grand total
    disk,            \* the filesystem as far as the run has looked at it
    output,          \* what the manifest file on disk holds
    \* ---- server (SpecRace, SpecTranslate) ----
    request,         \* the request path handed to translate_path, <<>> before
    translated,      \* the filesystem path translate_path returned
    body             \* what the server read from the file it served

evars == <<filepath, filepath2, items, items2, raised, epc>>
gvars == <<pc, argv, projects, pidx, cidx, files, fidx, assets, project_data,
           manifest, total_assets, disk, output>>
svars == <<request, translated, body>>
vars == <<filepath, filepath2, items, items2, raised, epc,
          pc, argv, projects, pidx, cidx, files, fidx, assets, project_data,
          manifest, total_assets, disk, output, request, translated, body>>

\* ------------------------------------------------------------------------
\* Bounds
\* ------------------------------------------------------------------------
MaxHints == 2         \* hints per encounter
MaxDialogues == 2     \* dialogue entries per YAML encounter document
MaxDialogueId == 1    \* explicit dialogue ids are 0..MaxDialogueId
MaxEntries == 2       \* entries of a themes / dialogues / lines sequence
MaxRequested == 2     \* length of the requested project list
MaxFiles == 2         \* files discovered over one run
MaxTokens == 4        \* tokens of a request path after its leading "/"

\* ------------------------------------------------------------------------
\* Python values
\* ------------------------------------------------------------------------
VStr(s) == [t |-> "str", s |-> s]
VInt(n) == [t |-> "int", n |-> n]
VDate == [t |-> "date", d |-> "2024-01-01"]
VNone == [t |-> "none"]
VList(xs) == [t |-> "list", xs |-> xs]
VDict(kv) == [t |-> "dict", kv |-> kv]

Digits == <<"0", "1", "2", "3", "4", "5", "6", "7", "8", "9">>

\* str(n) for a natural number n
RECURSIVE Str(_)
Str(n) == IF n < 10 THEN Digits[n + 1]
          ELSE Str(n \div 10) \o Digits[(n % 10) + 1]

\* what an f-string makes of a scalar value
PyStr(v) ==
    CASE v.t = "str" -> v.s
      [] v.t = "int" -> Str(v.n)
      [] v.t = "date" -> v.d
      [] v.t = "none" -> "None"
      [] OTHER -> "<repr>"

\* bool(v)
Truthy(v) ==
    CASE v.t = "str" -> v.s # ""
      [] v.t = "int" -> v.n # 0
      [] v.t = "date" -> TRUE
      [] v.t = "none" -> FALSE
      [] v.t = "list" -> v.xs # <<>>
      [] v.t = "dict" -> v.kv # <<>>

IsDict(v) == v.t = "dict"
IsStr(v) == v.t = "str"
IsList(v) == v.t = "list"

\* `key in d` for a dict d
Has(d, key) == \E i \in 1..Len(d.kv) : d.kv[i][1] = key

\* d.get(key, default) for a dict d
Get(d, key, default) ==
    IF Has(d, key)
    THEN d.kv[CHOOSE i \in 1..Len(d.kv) : d.kv[i][1] = key][2]
    ELSE default

\* `key in data` raises TypeError unless data is a container; the documents
\* drawn below are dicts, lists of non-strings, integers or None.
InRaises(data) == data.t \in {"int", "none", "date"}
In(key, data) == IsDict(data) /\ Has(data, key)

\* `for x in v` raises TypeError unless v is iterable
Iterable(v) == v.t \in {"list", "dict"}

\* json.dump accepts v
RECURSIVE Serialisable(_)
Serialisable(v) ==
    CASE v.t = "date" -> FALSE
      [] v.t = "list" -> \A i \in 1..Len(v.xs) : Serialisable(v.xs[i])
      [] v.t = "dict" -> \A i \in 1..Len(v.kv) : Serialisable(v.kv[i][2])
      [] OTHER -> TRUE

\* result of a (partial) run of the extractor body: the items appended so far
\* and whether an exception ended it
Ok(its) == [items |-> its, exc |-> FALSE]
Raise(its) == [items |-> its, exc |-> TRUE]

\* the elements a `for` loop visits (a dict yields its keys)
Elements(v) ==
    IF IsList(v) THEN v.xs
    ELSE [i \in 1..Len(v.kv) |-> VStr(v.kv[i][1])]

\* ------------------------------------------------------------------------
\* extract_narrative_items: JSON, chapters rule (lines 192-217)
\* ------------------------------------------------------------------------
ChapterIntroItem(chapter) ==
    [type |-> "chapter_intro",
     text |-> Get(chapter, "intro_text", VStr("")),
     context |-> "Chapter " \o PyStr(Get(chapter, "number", VStr("?"))) \o ": "
                 \o PyStr(Get(chapter, "title", VStr("Untitled"))),
     id |-> "chapter_" \o PyStr(Get(chapter, "number", VInt(0))) \o "_intro"]

ChapterEncounterIntroItem(chapter, encounter) ==
    [type |-> "encounter_intro",
     text |-> Get(encounter, "intro_text", VStr("")),
     context |-> PyStr(Get(chapter, "title", VStr(""))) \o " > "
                 \o PyStr(Get(encounter, "title", VStr("Untitled"))),
     id |-> "encounter_" \o PyStr(Get(encounter, "id", VStr("unknown"))) \o "_intro"]

ChapterHintItemFromZero(encounter, hint, i) ==
    [type |-> "hint",
     text |-> hint,
     context |-> PyStr(Get(encounter, "title", VStr("Untitled"))) \o " - Hint " \o Str(i - 1),
     id |-> "encounter_" \o PyStr(Get(encounter, "id", VStr("unknown")))
            \o "_hint_" \o Str(i - 1),
     hintLevel |-> i - 1]

\* i is enumerate's counter, which starts at 1
ChapterHintItem(encounter, hint, i) ==
    [type |-> "hint",
     text |-> hint,
     context |-> PyStr(Get(encounter, "title", VStr("Untitled"))) \o " - Hint " \o Str(i),
     id |-> "encounter_" \o PyStr(Get(encounter, "id", VStr("unknown")))
            \o "_hint_" \o Str(i),
     hintLevel |-> i]

RECURSIVE ChapterHints(_, _, _, _)
ChapterHints(encounter, hints, i, its) ==
    IF i > Len(hints) THEN its
    ELSE ChapterHints(encounter, hints, i + 1,
                      Append(its, ChapterHintItem(encounter, hints[i], i)))

\* body of `for encounter in chapter.get('encounters', [])`
EncounterBody(chapter, encounter, its) ==
    IF ~IsDict(encounter) THEN Raise(its)        \* encounter.get: AttributeError
    ELSE LET its1 == IF Truthy(Get(encounter, "intro_text", VNone))
                     THEN Append(its, ChapterEncounterIntroItem(chapter, encounter))
                     ELSE its
             hints == Get(encounter, "hints", VList(<<>>))
         IN  IF ~Iterable(hints) THEN Raise(its1)  \* enumerate(None): TypeError
             ELSE Ok(ChapterHints(encounter, Elements(hints), 1, its1))

RECURSIVE EncounterLoop(_, _, _, _)
EncounterLoop(chapter, encounters, j, its) ==
    IF j > Len(encounters) THEN Ok(its)
    ELSE LET r == EncounterBody(chapter, encounters[j], its)
         IN  IF r.exc THEN r ELSE EncounterLoop(chapter, encounters, j + 1, r.items)

\* body of `for chapter in data.get('chapters', [])`
ChapterBody(chapter, its) ==
    IF ~IsDict(chapter) THEN Raise(its)          \* chapter.get: AttributeError
    ELSE LET its1 == IF Truthy(Get(chapter, "intro_text", VNone))
                     THEN Append(its, ChapterIntroItem(chapter))
                     ELSE its
             encounters == Get(chapter, "encounters", VList(<<>>))
         IN  IF ~Iterable(encounters) THEN Raise(its1)
             ELSE EncounterLoop(chapter, Elements(encounters), 1, its1)

RECURSIVE ChapterLoop(_, _, _)
ChapterLoop(chapters, k, its) ==
    IF k > Len(chapters) THEN Ok(its)
    ELSE LET r == ChapterBody(chapters[k], its)
         IN  IF r.exc THEN r ELSE ChapterLoop(chapters, k + 1, r.items)

ChaptersRule(data) ==
    LET chapters == Get(data, "chapters", VList(<<>>))
    IN  IF ~Iterable(chapters) THEN Raise(<<>>)
        ELSE ChapterLoop(Elements(chapters), 1, <<>>)

\* ------------------------------------------------------------------------
\* extract_narrative_items: JSON, flavor collection rule (lines 220-240)
\* ------------------------------------------------------------------------
\* str.title() on the top-level keys the documents below use
TitleCase(s) ==
    CASE s = "weekly" -> "Weekly"
      [] s = "monthly" -> "Monthly"
      [] s = "victory" -> "Victory"
      [] s = "chapters" -> "Chapters"
      [] s = "themes" -> "Themes"
      [] s = "weeks" -> "Weeks"
      [] s = "dialogues" -> "Dialogues"
      [] s = "lines" -> "Lines"
      [] s = "version" -> "Version"
      [] OTHER -> s

FlavorListItem(category, entry, i) ==
    [type |-> "flavor",
     text |-> IF IsDict(entry) THEN Get(entry, "text", entry) ELSE entry,
     context |-> TitleCase(category) \o " #" \o Str(i + 1),
     id |-> "flavor_" \o category \o "_" \o Str(i + 1),
     flavorCategory |-> category]

FlavorDictItem(category, key, text) ==
    [type |-> "flavor",
     text |-> IF IsStr(text) THEN text ELSE VStr(PyStr(text)),
     context |-> TitleCase(category) \o " - " \o key,
     id |-> "flavor_" \o category \o "_" \o key,
     flavorCategory |-> category]

\* body of `for category, entries in data.items()`
FlavorCategoryItems(category, entries) ==
    IF IsList(entries)
    THEN [i \in 1..Len(entries.xs) |-> FlavorListItem(category, entries.xs[i], i - 1)]
    ELSE IF IsDict(entries)
    THEN [i \in 1..Len(entries.kv) |->
              FlavorDictItem(category, entries.kv[i][1], entries.kv[i][2])]
    ELSE <<>>

RECURSIVE FlavorLoop(_, _, _)
FlavorLoop(kv, k, its) ==
    IF k > Len(kv) THEN its
    ELSE FlavorLoop(kv, k + 1, its \o FlavorCategoryItems(kv[k][1], kv[k][2]))

FlavorRule(data) == Ok(FlavorLoop(data.kv, 1, <<>>))

\* ------------------------------------------------------------------------
\* extract_narrative_items: JSON, weekly themes rule (lines 243-261)
\* ------------------------------------------------------------------------
\* i is enumerate's counter, which starts at 0
ThemeItems(theme, i) ==
    IF IsDict(theme)
    THEN << [type |-> "weekly_theme",
             text |-> Get(theme, "text", Get(theme, "description", VStr(""))),
             context |-> "Week " \o PyStr(Get(theme, "week", VInt(i + 1))) \o ": "
                         \o PyStr(Get(theme, "title", VStr(""))),
             id |-> "week_" \o PyStr(Get(theme, "week", VInt(i + 1))),
             week |-> Get(theme, "week", VInt(i + 1))] >>
    ELSE IF IsStr(theme)
    THEN << [type |-> "weekly_theme",
             text |-> theme,
             context |-> "Week " \o Str(i + 1),
             id |-> "week_" \o Str(i + 1),
             week |-> VInt(i + 1)] >>
    ELSE <<>>

RECURSIVE ThemeLoop(_, _, _)
ThemeLoop(themes, k, its) ==
    IF k > Len(themes) THEN its
    ELSE ThemeLoop(themes, k + 1, its \o ThemeItems(themes[k], k - 1))

ThemesRule(data) ==
    LET themes == Get(data, "themes", Get(data, "weeks", VList(<<>>)))
    IN  IF ~Iterable(themes) THEN Raise(<<>>)
        ELSE Ok(ThemeLoop(Elements(themes), 1, <<>>))

\* ------------------------------------------------------------------------
\* extract_narrative_items: JSON, generic dialogue rule (lines 264-274)
\* ------------------------------------------------------------------------
JsonDialogueItems(dialogue, i) ==
    IF IsDict(dialogue)
    THEN << [type |-> "dialogue",
             text |-> Get(dialogue, "text", Get(dialogue, "line", VStr(""))),
             context |-> Get(dialogue, "speaker",
                             Get(dialogue, "character", VStr("Unknown"))),
             id |-> "dialogue_" \o PyStr(Get(dialogue, "id", VInt(i))),
             speaker |-> Get(dialogue, "speaker", Get(dialogue, "character", VStr("")))] >>
    ELSE <<>>

RECURSIVE JsonDialogueLoop(_, _, _)
JsonDialogueLoop(dialogues, k, its) ==
    IF k > Len(dialogues) THEN its
    ELSE JsonDialogueLoop(dialogues, k + 1, its \o JsonDialogueItems(dialogues[k], k - 1))

JsonDialoguesRule(data) ==
    LET dialogues == Get(data, "dialogues", Get(data, "lines", VList(<<>>)))
    IN  IF ~Iterable(dialogues) THEN Raise(<<>>)
        ELSE Ok(JsonDialogueLoop(Elements(dialogues), 1, <<>>))

\* ------------------------------------------------------------------------
\* extract_narrative_items: YAML, encounter rule (lines 284-325)
\* ------------------------------------------------------------------------
\* data.get('id', filepath.stem) and data.get('title', filepath.stem), formatted
YamlDocId(data, stem) == PyStr(Get(data, "id", VStr(stem)))
YamlDocTitle(data, stem) == PyStr(Get(data, "title", VStr(stem)))

YamlIntroItem(data, stem) ==
    [type |-> "encounter_intro",
     text |-> Get(data, "intro_text", VStr("")),
     context |-> YamlDocTitle(data, stem),
     id |-> "encounter_" \o YamlDocId(data, stem) \o "_intro"]

YamlSuccessItem(data, stem) ==
    [type |-> "encounter_success",
     text |-> Get(data, "success_text", VStr("")),
     context |-> YamlDocTitle(data, stem) \o " - Success",
     id |-> "encounter_" \o YamlDocId(data, stem) \o "_success"]

YamlFailureItem(data, stem) ==
    [type |-> "encounter_failure",
     text |-> Get(data, "failure_text", VStr("")),
     context |-> YamlDocTitle(data, stem) \o " - Failure",
     id |-> "encounter_" \o YamlDocId(data, stem) \o "_failure"]

\* i is enumerate's counter, which starts at 1
YamlHintItem(data, stem, hint, i) ==
    [type |-> "hint",
     text |-> IF IsDict(hint) THEN Get(hint, "text", hint) ELSE hint,
     context |-> YamlDocTitle(data, stem) \o " - Hint " \o Str(i),
     id |-> "encounter_" \o YamlDocId(data, stem) \o "_hint_" \o Str(i),
     hintLevel |-> i]

RECURSIVE YamlHints(_, _, _, _, _)
YamlHints(data, stem, hints, i, its) ==
    IF i > Len(hints) THEN its
    ELSE YamlHints(data, stem, hints, i + 1,
                   Append(its, YamlHintItem(data, stem, hints[i], i)))

\* n is len(items) at the moment the item is appended
YamlDialogueItem(data, stem, dialogue, n) ==
    [type |-> "dialogue",
     text |-> Get(dialogue, "text", Get(dialogue, "line", VStr(""))),
     context |-> YamlDocTitle(data, stem) \o " - "
                 \o PyStr(Get(dialogue, "speaker", VStr("Unknown"))),
     id |-> "dialogue_" \o YamlDocId(data, stem) \o "_"
            \o PyStr(Get(dialogue, "id", VInt(n))),
     speaker |-> Get(dialogue, "speaker", Get(dialogue, "character", VStr("")))]

RECURSIVE YamlDialogues(_, _, _, _, _)
YamlDialogues(data, stem, dialogues, k, its) ==
    IF k > Len(dialogues) THEN its
    ELSE YamlDialogues(data, stem, dialogues, k + 1,
             IF IsDict(dialogues[k])
             THEN Append(its, YamlDialogueItem(data, stem, dialogues[k], Len(its)))
             ELSE its)

EncounterRule(data, stem) ==
    LET its1 == IF Truthy(Get(data, "intro_text", VNone))
                THEN <<YamlIntroItem(data, stem)>> ELSE <<>>
        its2 == IF Truthy(Get(data, "success_text", VNone))
                THEN Append(its1, YamlSuccessItem(data, stem)) ELSE its1
        its3 == IF Truthy(Get(data, "failure_text", VNone))
                THEN Append(its2, YamlFailureItem(data, stem)) ELSE its2
        hints == Get(data, "hints", VList(<<>>))
        dialogues == Get(data, "dialogue", Get(data, "dialogues", VList(<<>>)))
    IN  IF ~Iterable(hints) THEN Raise(its3)          \* enumerate(None): TypeError
        ELSE LET its4 == YamlHints(data, stem, Elements(hints), 1, its3)
             IN  IF ~Iterable(dialogues) THEN Raise(its4)
                 ELSE Ok(YamlDialogues(data, stem, Elements(dialogues), 1, its4))

\* ------------------------------------------------------------------------
\* extract_narrative_items: YAML, standalone dialogue rule (lines 328-338)
\* ------------------------------------------------------------------------
\* i is enumerate's counter, which starts at 0
YamlLineItem(speaker, stem, line, i) ==
    [type |-> "dialogue",
     text |-> IF IsDict(line) THEN Get(line, "text", line) ELSE line,
     context |-> PyStr(speaker) \o " - Line " \o Str(i + 1),
     id |-> "dialogue_" \o stem \o "_" \o Str(i),
     speaker |-> speaker]

StandaloneDialogueRule(data, stem) ==
    LET speaker == Get(data, "npc", Get(data, "character",
                                        Get(data, "speaker", VStr(stem))))
        lines == Get(data, "lines", Get(data, "dialogue", VList(<<>>)))
    IN  IF ~Iterable(lines) THEN Raise(<<>>)
        ELSE Ok([i \in 1..Len(Elements(lines)) |->
                    YamlLineItem(speaker, stem, Elements(lines)[i], i - 1)])

\* ------------------------------------------------------------------------
\* extract_narrative_items: shape dispatch (lines 187-343)
\* ------------------------------------------------------------------------
JsonShapeDialoguesFirst(data) ==
    IF In("dialogues", data) \/ In("lines", data) THEN "dialogues"
    ELSE IF In("chapters", data) THEN "chapters"
    ELSE IF In("weekly", data) \/ In("monthly", data) \/ In("victory", data) THEN "flavor"
    ELSE IF In("themes", data) \/ In("weeks", data) THEN "themes"
    ELSE "none"

\* the if / elif chain of the JSON branch
JsonShape(data) ==
    IF In("chapters", data) THEN "chapters"
    ELSE IF In("weekly", data) \/ In("monthly", data) \/ In("victory", data) THEN "flavor"
    ELSE IF In("themes", data) \/ In("weeks", data) THEN "themes"
    ELSE IF In("dialogues", data) \/ In("lines", data) THEN "dialogues"
    ELSE "none"

\* the if / elif chain of the YAML branch
YamlShape(data) ==
    IF In("intro_text", data) \/ In("title", data) THEN "encounter"
    ELSE IF In("npc", data) \/ In("character", data) \/ In("speaker", data) THEN "dialogue"
    ELSE "none"

\* the try block: what was appended to items, and whether it raised.
\* A file is [stem, suffix, parse, data]: parse is "ok" when json.load /
\* yaml.safe_load returns data, "error" when open or the parser raises.
ExtractBody(fp) ==
    IF fp.suffix = ".json"
    THEN IF fp.parse # "ok" THEN Raise(<<>>)
         ELSE IF InRaises(fp.data) THEN Raise(<<>>)
         ELSE CASE JsonShape(fp.data) = "chapters" -> ChaptersRule(fp.data)
                [] JsonShape(fp.data) = "flavor" -> FlavorRule(fp.data)
                [] JsonShape(fp.data) = "themes" -> ThemesRule(fp.data)
                [] JsonShape(fp.data) = "dialogues" -> JsonDialoguesRule(fp.data)
                [] OTHER -> Ok(<<>>)
    ELSE IF fp.suffix \in {".yaml", ".yml"}
    THEN IF fp.parse # "ok" THEN Raise(<<>>)
         ELSE IF fp.data.t = "none" THEN Ok(<<>>)
         ELSE IF InRaises(fp.data) THEN Raise(<<>>)
         ELSE CASE YamlShape(fp.data) = "encounter" -> EncounterRule(fp.data, fp.stem)
                [] YamlShape(fp.data) = "dialogue" -> StandaloneDialogueRule(fp.data, fp.stem)
                [] OTHER -> Ok(<<>>)
    ELSE Ok(<<>>)

\* `except Exception` prints a warning; `return items` follows in every case
extract_narrative_items(fp) == ExtractBody(fp).items

\* ------------------------------------------------------------------------
\* Documents the extractor is run on
\* ------------------------------------------------------------------------
SeqsUpTo(S, n) == UNION {[1..k -> S] : k \in 0..n}

\* one key of a dict, and a key that may be missing
KV(key, v) == << <<key, v>> >>
OptKV(key, Vals) == {<<>>} \cup {KV(key, v) : v \in Vals}

\* --- YAML encounter documents ---
TitleIntroFrags ==
    {KV("title", VStr("Gate")),
     KV("title", VStr("Gate")) \o KV("intro_text", VStr("")),
     KV("title", VStr("Gate")) \o KV("intro_text", VStr("A gate.")),
     KV("intro_text", VStr("A gate."))}

SuccessFailureFrags ==
    {<<>>,
     KV("success_text", VStr("Open.")),
     KV("success_text", VStr("Open.")) \o KV("failure_text", VStr("Shut."))}

HintFrags ==
    {<<>>, KV("hints", VNone)}
    \cup {KV("hints", VList(h)) : h \in SeqsUpTo({VStr("look up")}, MaxHints)}

DialogueEntries ==
    {VDict(KV("text", VStr("hi"))), VStr("raw")}
    \cup {VDict(KV("id", VInt(k)) \o KV("text", VStr("yo"))) : k \in 0..MaxDialogueId}

DialogueFrags ==
    {<<>>} \cup {KV("dialogue", VList(d)) : d \in SeqsUpTo(DialogueEntries, MaxDialogues)}

YamlEncounterDocs ==
    {VDict(fid \o fti \o fsf \o fh \o fd) :
        fid \in OptKV("id", {VStr("e1")}), fti \in TitleIntroFrags,
        fsf \in SuccessFailureFrags, fh \in HintFrags, fd \in DialogueFrags}

\* --- YAML documents that may match both shapes, either or none ---
LineEntries == {VStr("Halt!"), VDict(KV("text", VStr("Who goes there?")))}

YamlDispatchDocs ==
    {VDict(ft \o fs \o fl) :
        ft \in OptKV("title", {VStr("Gate")}),
        fs \in OptKV("speaker", {VStr("Guard")}) \cup {KV("npc", VStr("Guard"))},
        fl \in {KV("lines", VList(l)) : l \in SeqsUpTo(LineEntries, MaxEntries)}
               \cup {KV("lines", VNone),
                     KV("dialogues", VList(<<VDict(KV("line", VStr("hm")))>>))}}
    \cup {VNone, VInt(5), VList(<<>>),
          VDict(KV("title", VStr("Gate")) \o KV("intro_text", VDate)),
          VDict(KV("title", VStr("Gate"))
                \o KV("hints", VList(<<VDict(KV("text", VStr("push")))>>)))}

\* --- JSON chapter documents ---
ChapterEncounters ==
    {VStr("oops")}
    \cup {VDict(fid \o KV("title", VStr("Gate")) \o fi \o fh) :
            fid \in OptKV("id", {VStr("e1")}),
            fi \in OptKV("intro_text", {VStr("A gate.")}),
            fh \in {<<>>, KV("hints", VNone)}
                   \cup {KV("hints", VList(h)) :
                           h \in {[i \in 1..k |-> VStr(<<"look up", "push", "pull", "wait">>[i])]
                                    : k \in 1..MaxHints}}}

Chapters ==
    {VDict(fn \o KV("title", VStr("Intro")) \o fi \o KV("encounters", VList(e))) :
        fn \in OptKV("number", {VInt(1)}),
        fi \in OptKV("intro_text", {VStr(""), VStr("Welcome")}),
        e \in SeqsUpTo(ChapterEncounters, 2)}

LastChapter == VDict(KV("number", VInt(2)) \o KV("intro_text", VStr("The end")))

JsonChapterDocs ==
    {VDict(KV("chapters", VList(cs))) :
        cs \in {<<>>} \cup {<<c>> : c \in Chapters}
               \cup {<<c, VStr("oops")>> : c \in Chapters}
               \cup {<<c, LastChapter>> : c \in Chapters}}

\* --- JSON documents with any mix of the four shapes' keys ---
ThemeEntries ==
    {VDict(KV("week", VInt(7)) \o KV("text", VStr("Salt"))),
     VDict(KV("description", VStr("Pepper"))), VStr("Rainbow tables"), VInt(3)}

JsonDialogueEntries ==
    {VDict(KV("id", VStr("d1")) \o KV("text", VStr("hi")) \o KV("speaker", VStr("Guard"))),
     VDict(KV("line", VStr("yo"))), VStr("raw")}

JsonDispatchDocs ==
    {VDict(fc \o ff \o ft \o fd \o KV("version", VInt(1))) :
        fc \in OptKV("chapters", {VList(<<LastChapter>>)}),
        ff \in OptKV("weekly", {VList(<<VStr("Crack on"), VDict(KV("text", VStr("Go")))>>)})
               \cup {KV("victory", VDict(KV("first", VStr("gg")) \o KV("streak", VInt(3))))},
        ft \in OptKV("themes", {VList(<<VStr("Salt")>>)}),
        fd \in OptKV("dialogues", {VList(<<VDict(KV("text", VStr("hi")))>>)})}

JsonSequenceDocs ==
    {VDict(KV(k, VList(es))) : k \in {"themes", "weeks"}, es \in SeqsUpTo(ThemeEntries, MaxEntries)}
    \cup {VDict(KV(k, VList(es))) :
            k \in {"dialogues", "lines"}, es \in SeqsUpTo(JsonDialogueEntries, MaxEntries)}
    \cup {VInt(5), VNone, VList(<<>>), VDict(KV("themes", VNone))}

File(stem, suffix, data) == [stem |-> stem, suffix |-> suffix, parse |-> "ok", data |-> data]
Unparseable(stem, suffix) ==
    [stem |-> stem, suffix |-> suffix, parse |-> "error", data |-> VNone]

ExtractInputs ==
    {File("gate", ".yaml", d) : d \in YamlEncounterDocs}
    \cup {File("guard", ".yml", d) : d \in YamlDispatchDocs}
    \cup {File("campaign", ".json", d) : d \in JsonChapterDocs}
    \cup {File("flavor_text", ".json", d) : d \in JsonDispatchDocs \cup JsonSequenceDocs}
    \cup {Unparseable("broken", ".json"), Unparseable("broken", ".yaml"),
          File("notes", ".md", VNone)}

\* --- an edit of a document's text payload ---
TextKeys == {"intro_text", "success_text", "failure_text", "text", "line", "description"}

\* mode "blank" empties every text, "fill" gives every text a value,
\* "rewrite" changes the non-empty texts and leaves presence as it is
EditText(v, mode) ==
    IF ~IsStr(v) THEN v
    ELSE IF mode = "blank" THEN VStr("")
    ELSE IF mode = "fill" THEN VStr("edited")
    ELSE IF v.s = "" THEN v ELSE VStr("edited")

RECURSIVE EditDoc(_, _, _)
EditDoc(v, mode, inHints) ==
    CASE IsDict(v) ->
           VDict([i \in 1..Len(v.kv) |->
                    <<v.kv[i][1],
                      IF v.kv[i][1] \in TextKeys THEN EditText(v.kv[i][2], mode)
                      ELSE EditDoc(v.kv[i][2], mode, v.kv[i][1] = "hints")>>])
      [] IsList(v) -> VList([i \in 1..Len(v.xs) |-> EditDoc(v.xs[i], mode, inHints)])
      [] IsStr(v) /\ inHints -> VStr("edited")
      [] OTHER -> v

\* edits that add or remove a text are drawn for the YAML encounter documents
EditModes(fp) ==
    IF fp.suffix \in {".yaml", ".yml"} /\ fp.parse = "ok" /\ IsDict(fp.data)
       /\ YamlShape(fp.data) = "encounter"
    THEN {"blank", "fill", "rewrite"} ELSE {"rewrite"}

Edited(fp, mode) == [fp EXCEPT !.data = EditDoc(fp.data, mode, FALSE)]

\* ------------------------------------------------------------------------
\* server.py: PROJECT_ROOTS and QAPortalHandler.translate_path (lines 15-40)
\* ------------------------------------------------------------------------
\* A URL path is a sequence of tokens: "/" or a run of other characters.
\* A filesystem path is the sequence of the segments of an absolute path.

\* REVIEW_DIR, the directory of server.py and of generate-manifest.py
REVIEW_DIR == <<"srv", "review">>

\* URL prefix and directory, in the dict's insertion order
PROJECT_ROOTS ==
    << [url_prefix |-> <<"/", "SpellEngine", "/">>,
        fs_root |-> <<"Users", "petermckernan", "Projects", "SpellEngine">>],
       [url_prefix |-> <<"/", "HashChampions", "/">>,
        fs_root |-> <<"Users", "petermckernan", "Projects", "HashChampions">>] >>

\* urllib.parse.unquote on one token: percent escapes are decoded
UnquoteToken(tok) ==
    CASE tok = "%2F" -> "/"
      [] tok = "%2e%2e" -> ".."
      [] OTHER -> tok

unquote(path) == [i \in 1..Len(path) |-> UnquoteToken(path[i])]

\* str.startswith
StartsWith(path, prefix) ==
    Len(path) >= Len(prefix) /\ SubSeq(path, 1, Len(prefix)) = prefix

\* the segments of a path text: the runs of tokens between the "/"
RECURSIVE Segments(_, _, _)
Segments(path, k, cur) ==
    IF k > Len(path) THEN (IF cur = "" THEN <<>> ELSE <<cur>>)
    ELSE IF path[k] = "/"
    THEN (IF cur = "" THEN <<>> ELSE <<cur>>) \o Segments(path, k + 1, "")
    ELSE Segments(path, k + 1, cur \o path[k])

\* pathlib's fs_root / relative_path: an absolute right operand replaces the
\* left one; ".." segments are kept as they are
PathJoin(fs_root, relative_path) ==
    IF relative_path # <<>> /\ relative_path[1] = "/"
    THEN Segments(relative_path, 1, "")
    ELSE fs_root \o Segments(relative_path, 1, "")

\* posixpath.normpath of an absolute path: ".." steps up, never above "/"
RECURSIVE NormPath(_, _, _)
NormPath(segs, k, acc) ==
    IF k > Len(segs) THEN acc
    ELSE IF segs[k] = ".."
    THEN NormPath(segs, k + 1, IF acc = <<>> THEN <<>> ELSE SubSeq(acc, 1, Len(acc) - 1))
    ELSE NormPath(segs, k + 1, Append(acc, segs[k]))

\* line 40, SimpleHTTPRequestHandler.translate_path: the unquoted and
\* normalised path, without "..", under the served directory
DefaultTranslate(path) ==
    REVIEW_DIR \o SelectSeq(NormPath(Segments(unquote(path), 1, ""), 1, <<>>),
                            LAMBDA w : w # "..")

\* lines 32-37: the loop over PROJECT_ROOTS from entry k on
RECURSIVE TranslateFrom(_, _)
TranslateFrom(path, k) ==
    IF k > Len(PROJECT_ROOTS) THEN DefaultTranslate(path)
    ELSE IF StartsWith(path, PROJECT_ROOTS[k].url_prefix)
    THEN PathJoin(PROJECT_ROOTS[k].fs_root,
                  SubSeq(path, Len(PROJECT_ROOTS[k].url_prefix) + 1, Len(path)))
    ELSE TranslateFrom(path, k + 1)

translate_path(path) == TranslateFrom(unquote(path), 1)

\* no request handled yet
ServerIdle ==
    /\ request = <<>>
    /\ translated = <<>>
    /\ body = "none"

\* ------------------------------------------------------------------------
\* Extractor harness: extract_narrative_items applied to a document and to
\* the same document after a text edit
\* ------------------------------------------------------------------------
GenIdle ==
    /\ pc = "idle"
    /\ argv = "none"
    /\ projects = <<>>
    /\ pidx = 0
    /\ cidx = 0
    /\ files = <<>>
    /\ fidx = 0
    /\ assets = <<>>
    /\ project_data = <<>>
    /\ manifest = <<>>
    /\ total_assets = 0
    /\ disk = <<>>
    /\ output = "prior"

InitExtract ==
    /\ filepath \in ExtractInputs
    /\ \E mode \in EditModes(filepath) : filepath2 = Edited(filepath, mode)
    /\ items = <<>>
    /\ items2 = <<>>
    /\ raised = FALSE
    /\ epc = "ready"
    /\ GenIdle
    /\ ServerIdle

ExtractCall ==
    /\ epc = "ready"
    /\ items' = extract_narrative_items(filepath)
    /\ items2' = extract_narrative_items(filepath2)
    /\ raised' = ExtractBody(filepath).exc
    /\ epc' = "extracted"
    /\ UNCHANGED <<filepath, filepath2>>
    /\ UNCHANGED gvars
    /\ UNCHANGED svars

NextExtract == ExtractCall

SpecExtract == InitExtract /\ [][NextExtract]_vars

\* ------------------------------------------------------------------------
\* Claims about extract_narrative_items (checked under SpecExtract)
\* ------------------------------------------------------------------------
Parsed(fp) == fp.parse = "ok" /\ IsDict(fp.data)
IsJsonDoc(fp) == fp.suffix = ".json" /\ Parsed(fp)
IsYamlDoc(fp) == fp.suffix \in {".yaml", ".yml"} /\ Parsed(fp)
IsYamlEncounter(fp) ==
    IsYamlDoc(fp) /\ (Has(fp.data, "intro_text") \/ Has(fp.data, "title"))

ItemTypes == {"chapter_intro", "encounter_intro", "encounter_success", "encounter_failure",
              "hint", "dialogue", "flavor", "weekly_theme"}
TypesOf(its) == {its[i].type : i \in 1..Len(its)}
IdsOf(its) == [i \in 1..Len(its) |-> its[i].id]
IdsOfType(its, T) == IdsOf(SelectSeq(its, LAMBDA x : x.type = T))

\* C2: whenever the extractor fails to parse the document or an exception is
\* raised anywhere during extraction, the call returns zero items.
C2_FailureYieldsNoItems ==
    (epc = "extracted" /\ raised) => items = <<>>

\* C4: ids do not depend on text content: for a document and its text-edited
\* version, the items of the same logical entry (same type, same rank among
\* the items of that type) carry the same id.
C4_IdsIgnoreText ==
    epc = "extracted" =>
        \A T \in ItemTypes :
            Len(IdsOfType(items, T)) = Len(IdsOfType(items2, T))
                => IdsOfType(items, T) = IdsOfType(items2, T)

\* C5: dispatch is first-matching and mutually exclusive. JSON: chapters >
\* flavor collection > themes/weeks > dialogues/lines, and only the first
\* matching rule's items are produced; YAML: the encounter rule fires in
\* preference to the standalone-dialogue rule; no matching shape, no items.
ChapterTypes == {"chapter_intro", "encounter_intro", "hint"}
EncounterTypes == {"encounter_intro", "encounter_success", "encounter_failure",
                   "hint", "dialogue"}
\* the contexts only the standalone-dialogue rule writes
StandaloneContexts(fp) ==
    {PyStr(spk) \o " - Line " \o Str(n) :
        spk \in {Get(fp.data, k, VStr(fp.stem)) : k \in {"npc", "character", "speaker"}},
        n \in 1..(MaxEntries + 1)}

C5_FirstMatchingRule ==
    (epc = "extracted" /\ Parsed(filepath)) =>
        LET d == filepath.data
            chapters == Has(d, "chapters")
            flavor == Has(d, "weekly") \/ Has(d, "monthly") \/ Has(d, "victory")
            themes == Has(d, "themes") \/ Has(d, "weeks")
            dialogues == Has(d, "dialogues") \/ Has(d, "lines")
            encounter == Has(d, "intro_text") \/ Has(d, "title")
            standalone == Has(d, "npc") \/ Has(d, "character") \/ Has(d, "speaker")
        IN  IF filepath.suffix = ".json"
            THEN /\ chapters => TypesOf(items) \subseteq ChapterTypes
                 /\ (~chapters /\ flavor) => TypesOf(items) \subseteq {"flavor"}
                 /\ (~chapters /\ ~flavor /\ themes) => TypesOf(items) \subseteq {"weekly_theme"}
                 /\ (~chapters /\ ~flavor /\ ~themes /\ dialogues)
                        => TypesOf(items) \subseteq {"dialogue"}
                 /\ (~chapters /\ ~flavor /\ ~themes /\ ~dialogues) => items = <<>>
            ELSE IF filepath.suffix \in {".yaml", ".yml"}
            THEN /\ encounter =>
                        /\ TypesOf(items) \subseteq EncounterTypes
                        /\ \A i \in 1..Len(items) :
                               items[i].context \notin StandaloneContexts(filepath)
                 /\ (~encounter /\ standalone) =>
                        \A i \in 1..Len(items) :
                            /\ items[i].type = "dialogue"
                            /\ items[i].context \in StandaloneContexts(filepath)
                 /\ (~encounter /\ ~standalone) => items = <<>>
            ELSE items = <<>>

\* a JSON document with both chapters and dialogues, and a YAML document with
\* both title and speaker, have been extracted and produced items
C5_Witness ==
    /\ epc = "extracted"
    /\ IsJsonDoc(filepath)
    /\ Has(filepath.data, "chapters") /\ Has(filepath.data, "dialogues")
    /\ Has(filepath.data, "weekly") /\ Has(filepath.data, "themes")
    /\ items # <<>>

\* ------------------------------------------------------------------------
\* C8: the chapters rule, item by item
\* ------------------------------------------------------------------------
RECURSIVE Concat(_)
Concat(ss) == IF ss = <<>> THEN <<>> ELSE Head(ss) \o Concat(Tail(ss))

\* what is compared: type, id and hintLevel (0 where the item has none)
Summary(its) ==
    [i \in 1..Len(its) |->
        [type |-> its[i].type, id |-> its[i].id,
         level |-> IF "hintLevel" \in DOMAIN its[i] THEN its[i].hintLevel ELSE 0]]

ListOf(d, key) == Get(d, key, VList(<<>>)).xs

\* the items the claim lists for one encounter; introAlways says whether the
\* encounter_intro item is listed whatever the encounter's intro text
ExpectedEncounter(e, introAlways) ==
    (IF introAlways \/ Truthy(Get(e, "intro_text", VNone))
     THEN << [type |-> "encounter_intro",
              id |-> "encounter_" \o PyStr(Get(e, "id", VStr("unknown"))) \o "_intro",
              level |-> 0] >>
     ELSE <<>>)
    \o [n \in 1..Len(ListOf(e, "hints")) |->
          [type |-> "hint",
           id |-> "encounter_" \o PyStr(Get(e, "id", VStr("unknown"))) \o "_hint_" \o Str(n),
           level |-> n]]

ExpectedChapter(c, introAlways) ==
    (IF Truthy(Get(c, "intro_text", VNone))
     THEN << [type |-> "chapter_intro",
              id |-> "chapter_" \o PyStr(Get(c, "number", VInt(0))) \o "_intro",
              level |-> 0] >>
     ELSE <<>>)
    \o Concat([j \in 1..Len(ListOf(c, "encounters")) |->
                 ExpectedEncounter(ListOf(c, "encounters")[j], introAlways)])

ExpectedChapterItems(data, introAlways) ==
    Concat([k \in 1..Len(ListOf(data, "chapters")) |->
               ExpectedChapter(ListOf(data, "chapters")[k], introAlways)])

\* the example document of the specification
ExampleChapterDoc ==
    VDict(KV("chapters", VList(<<
        VDict(KV("number", VInt(1)) \o KV("title", VStr("Intro"))
              \o KV("intro_text", VStr("Welcome"))
              \o KV("encounters", VList(<<
                    VDict(KV("id", VStr("e1")) \o KV("title", VStr("Gate"))
                          \o KV("intro_text", VStr("A gate."))
                          \o KV("hints", VList(<<VStr("look up"), VStr("push")>>)))>>)))>>)))

ExampleChapterItems ==
    << [type |-> "chapter_intro", id |-> "chapter_1_intro", level |-> 0],
       [type |-> "encounter_intro", id |-> "encounter_e1_intro", level |-> 0],
       [type |-> "hint", id |-> "encounter_e1_hint_1", level |-> 1],
       [type |-> "hint", id |-> "encounter_e1_hint_2", level |-> 2] >>

\* a chapters document whose extraction ran to completion
ChaptersExtracted ==
    /\ epc = "extracted"
    /\ IsJsonDoc(filepath)
    /\ Has(filepath.data, "chapters")
    /\ ~raised

\* C8 as claimed: per chapter a chapter_intro when intro text is present, then
\* for EACH encounter one encounter_intro followed by its hints 1..n.
C8_EveryEncounterHasIntro ==
    ChaptersExtracted => Summary(items) = ExpectedChapterItems(filepath.data, TRUE)

\* C8 amended: per chapter a chapter_intro when the chapter's intro text is
\* present, then per encounter an encounter_intro when the encounter's intro
\* text is present, followed by one hint per hint with hintLevel 1..n; the
\* example document yields exactly its four items.
C8_ChapterItems ==
    ChaptersExtracted =>
        /\ Summary(items) = ExpectedChapterItems(filepath.data, FALSE)
        /\ filepath.data = ExampleChapterDoc => Summary(items) = ExampleChapterItems

\* the example document has been extracted
C8_Witness ==
    /\ ChaptersExtracted
    /\ filepath.data = ExampleChapterDoc
    /\ Len(items) = 4

\* ------------------------------------------------------------------------
\* C10: ids within one YAML encounter document
\* ------------------------------------------------------------------------
\* C10: within a single YAML encounter document the ids of all items are
\* pairwise distinct, whatever mix of dialogue entries with and without an
\* explicit id the document holds.
C10_IdsPairwiseDistinct ==
    (epc = "extracted" /\ IsYamlEncounter(filepath)) =>
        \A i, j \in 1..Len(items) : i # j => items[i].id # items[j].id

\* the sequence a themes/weeks or dialogues/lines document is iterated over
EntriesOf(fp) ==
    IF JsonShape(fp.data) = "themes"
    THEN Get(fp.data, "themes", Get(fp.data, "weeks", VList(<<>>)))
    ELSE Get(fp.data, "dialogues", Get(fp.data, "lines", VList(<<>>)))

\* C11: for a JSON document dispatched to the themes/weeks rule or to the
\* dialogues/lines rule, the extractor returns exactly one item per entry of
\* the sequence, whatever the entry's form: as many items as entries.
C11_OneItemPerEntry ==
    (/\ epc = "extracted"
     /\ IsJsonDoc(filepath)
     /\ JsonShape(filepath.data) \in {"themes", "dialogues"}
     /\ IsList(EntriesOf(filepath)))
        => Len(items) = Len(Elements(EntriesOf(filepath)))

\* ------------------------------------------------------------------------
\* PROJECTS (lines 23-179): the catalog, categories in declared order
\* ------------------------------------------------------------------------
Category(key, path, reviewType, patterns, extractContent) ==
    [key |-> key, path |-> path, reviewType |-> reviewType,
     patterns |-> patterns, extractContent |-> extractContent]

SpellEngineCategories ==
    << Category("dread_citadel_art", "assets/images/dread_citadel", "art",
                <<"*.png", "*.jpg">>, FALSE),
       Category("dread_citadel_crunched", "assets/images/dread_citadel_crunched", "art",
                <<"*.png">>, FALSE),
       Category("music", "assets/audio/music", "audio", <<"*.ogg", "*.mp3", "*.wav">>, FALSE),
       Category("sfx", "assets/audio/sfx", "audio", <<"*.ogg", "*.mp3", "*.wav">>, FALSE),
       Category("campaign_narrative", "content/adventures/dread_citadel", "narrative",
                <<"campaign.json", "campaign.yaml">>, TRUE),
       Category("encounters", "content/adventures/dread_citadel/encounters", "narrative",
                <<"*.yaml", "*.yml">>, TRUE),
       Category("dialogues", "content/dialogues", "narrative", <<"*.yaml", "*.json">>, TRUE),
       Category("lore", "cipher-circle/stories", "lore", <<"*.md">>, FALSE),
       Category("chronicles", "cipher-circle/chronicles", "lore", <<"*.md">>, FALSE),
       Category("voice_guides", "cipher-circle", "vocal",
                <<"VOICE_GUIDE.md", "*voice*.md">>, FALSE) >>

HashChampionsCategories ==
    << Category("hero", "assets/images/hero", "art", <<"*.png", "*.jpg">>, FALSE),
       Category("leaderboard", "assets/images/leaderboard", "art", <<"*.png">>, FALSE),
       Category("ranks", "assets/images/icons/ranks", "art", <<"*.png">>, FALSE),
       Category("achievements", "assets/images/icons/achievements", "art", <<"*.png">>, FALSE),
       Category("profile", "assets/images/profile", "art", <<"*.png">>, FALSE),
       Category("characters", "assets/images/characters", "art", <<"*.png">>, FALSE),
       Category("equipment", "assets/images/icons/equipment", "art", <<"*.png">>, FALSE),
       Category("badges", "assets/images/icons/badges", "art", <<"*.png">>, FALSE),
       Category("scenes", "assets/images/scenes", "art", <<"*.png">>, FALSE),
       Category("sprites", "assets/images/sprites", "art", <<"*.png">>, FALSE),
       Category("ui", "assets/images/ui", "art", <<"*.png">>, FALSE),
       Category("special", "assets/images/special", "art", <<"*.png">>, FALSE),
       Category("logos", "assets/images/logos", "art", <<"*.png", "*.svg">>, FALSE),
       Category("flavor_text", "content/narrative", "narrative", <<"flavor_text.json">>, TRUE),
       Category("weekly_themes", "content/narrative", "narrative",
                <<"weekly_themes.json">>, TRUE),
       Category("review_music", "assets/review/music", "audio", <<"*.mp3">>, FALSE) >>

ProjectKeys == <<"spellengine", "hashchampions">>      \* list(PROJECTS.keys())

PROJECTS ==
    [k \in {"spellengine", "hashchampions"} |->
        IF k = "spellengine"
        THEN [name |-> "SpellEngine / Dread Citadel",
              basePath |-> "/Users/petermckernan/Projects/SpellEngine",
              categories |-> SpellEngineCategories]
        ELSE [name |-> "HashChampions",
              basePath |-> "/Users/petermckernan/Projects/HashChampions",
              categories |-> HashChampionsCategories]]

\* ------------------------------------------------------------------------
\* The filesystem the run looks at
\* ------------------------------------------------------------------------
\* A file on disk:
\*   path      relative to the project root
\*   stem, suffix, parse, data   as the extractor reads it
\*   readable  stat() and open() succeed (FALSE: a directory or a dangling
\*             link whose name matches the pattern, a permission error)
\*   image     "ok" when PIL decodes it, "bad" when it does not
\*   size, hash   st_size and the first 8 hex digits of the MD5
DiskFile(path, stem, suffix, parse, data, readable, image, size, hash) ==
    [path |-> path, stem |-> stem, suffix |-> suffix, parse |-> parse, data |-> data,
     readable |-> readable, image |-> image, size |-> size, hash |-> hash]

GateYaml ==
    VDict(KV("id", VStr("gate")) \o KV("title", VStr("Gate"))
          \o KV("intro_text", VStr("A gate."))
          \o KV("dialogue", VList(<<VDict(KV("text", VStr("hi")))>>)))

NoHintsYaml ==
    VDict(KV("title", VStr("Moat")) \o KV("intro_text", VStr("A moat."))
          \o KV("hints", VNone))

DatedYaml == VDict(KV("title", VStr("Diary")) \o KV("intro_text", VDate))

FlavorJson ==
    VDict(KV("weekly", VList(<<VStr("Crack on"), VStr("Hash it out")>>))
          \o KV("victory", VDict(KV("first", VStr("gg")))))

\* every path the modelled disk can hold, in the order sorted() gives them
DiskPaths ==
    << "assets/images/dread_citadel/gate.png",
       "assets/images/dread_citadel/keep.png",
       "assets/images/dread_citadel/tower.png",
       "assets/images/hero/hero.png",
       "cipher-circle/stories/origin.md",
       "content/adventures/dread_citadel/encounters/broken.yaml",
       "content/adventures/dread_citadel/encounters/dated.yaml",
       "content/adventures/dread_citadel/encounters/gate.yaml",
       "content/adventures/dread_citadel/encounters/moat.yaml",
       "content/narrative/flavor_text.json" >>

\* the files that can be found, per project and category; every other
\* category directory of the catalog holds no matching file
Candidates(project_key, cat_key) ==
    CASE project_key = "spellengine" /\ cat_key = "dread_citadel_art" ->
           {DiskFile(DiskPaths[1], "gate", ".png", "ok", VNone, TRUE, "ok", 2048, "0a1b2c3d"),
            DiskFile(DiskPaths[2], "keep", ".png", "ok", VNone, TRUE, "bad", 17, "99f0e1d2"),
            DiskFile(DiskPaths[3], "tower", ".png", "ok", VNone, FALSE, "bad", 0, "")}
      [] project_key = "spellengine" /\ cat_key = "lore" ->
           {DiskFile(DiskPaths[5], "origin", ".md", "ok", VNone, TRUE, "bad", 900, "5e6f7a8b")}
      [] project_key = "spellengine" /\ cat_key = "encounters" ->
           {DiskFile(DiskPaths[6], "broken", ".yaml", "error", VNone, TRUE, "bad",
                     12, "deadbeef"),
            DiskFile(DiskPaths[7], "dated", ".yaml", "ok", DatedYaml, TRUE, "bad",
                     40, "0badcafe"),
            DiskFile(DiskPaths[8], "gate", ".yaml", "ok", GateYaml, TRUE, "bad",
                     120, "1234abcd"),
            DiskFile(DiskPaths[9], "moat", ".yaml", "ok", NoHintsYaml, TRUE, "bad",
                     64, "abcd1234")}
      [] project_key = "hashchampions" /\ cat_key = "hero" ->
           {DiskFile(DiskPaths[4], "hero", ".png", "ok", VNone, TRUE, "ok", 4096, "77777777")}
      [] project_key = "hashchampions" /\ cat_key = "flavor_text" ->
           {DiskFile(DiskPaths[10], "flavor_text", ".json", "ok", FlavorJson, TRUE, "bad",
                     300, "f1a40123")}
      [] OTHER -> {}

CategoryKeys(project_key) ==
    {PROJECTS[project_key].categories[i].key :
        i \in 1..Len(PROJECTS[project_key].categories)}

\* category directories that may exist without holding a matching file
EmptyDirCandidates == {<<"spellengine", "music">>}

AllCandidates(roots) ==
    UNION {Candidates(k, c) : k \in roots, c \in UNION {CategoryKeys(r) : r \in roots}}

DirsOf(roots, F) ==
    {kc \in UNION {{<<k, c>> : c \in CategoryKeys(k)} : k \in roots} :
        Candidates(kc[1], kc[2]) \cap F # {}}

\* the disks the run may find: a project root that is missing has nothing
\* under it; at most MaxFiles files in all
Disks ==
    UNION {
        {[roots |-> r, dirs |-> DirsOf(r, F) \cup e, files |-> F] :
            F \in {G \in SUBSET AllCandidates(r) : Cardinality(G) <= MaxFiles},
            e \in SUBSET {kc \in EmptyDirCandidates : kc[1] \in r}}
        : r \in SUBSET {"spellengine", "hashchampions"}}

\* ------------------------------------------------------------------------
\* scan_directory (lines 374-389)
\* ------------------------------------------------------------------------
\* sorted(set(paths)) for a set of files of the disk
SortedFiles(F) ==
    LET idx == SelectSeq([i \in 1..Len(DiskPaths) |-> i],
                         LAMBDA i : \E f \in F : f.path = DiskPaths[i])
    IN  [k \in 1..Len(idx) |-> CHOOSE f \in F : f.path = DiskPaths[idx[k]]]

\* glob(pattern) and glob("**/" + pattern) both find a file of the category
\* directory; the set removes the duplicates
scan_directory(d, project_key, category) ==
    IF <<project_key, category.key>> \notin d.dirs THEN <<>>
    ELSE SortedFiles(Candidates(project_key, category.key) \cap d.files)

\* ------------------------------------------------------------------------
\* get_file_info (lines 346-371)
\* ------------------------------------------------------------------------
ImageSuffixes == {".png", ".jpg", ".jpeg", ".gif"}

\* stat() or open() raises: the exception leaves get_file_info
ProbeRaisesOnBadImage(f) == ~f.readable \/ (f.suffix \in ImageSuffixes /\ f.image # "ok")

ProbeRaises(f) == ~f.readable

get_file_info(f) ==
    [size |-> f.size,
     modified |-> "2024-05-01T12:00:00",
     hash |-> f.hash,
     dimensions |-> IF f.suffix \in ImageSuffixes /\ f.image = "ok" THEN "64x64" ELSE "None"]

\* ------------------------------------------------------------------------
\* generate_manifest (lines 392-492)
\* ------------------------------------------------------------------------
\* d[key] = value on an insertion-ordered dict held as <<key, value>> pairs
DictSet(kv, key, value) ==
    IF \E i \in 1..Len(kv) : kv[i][1] = key
    THEN [i \in 1..Len(kv) |-> IF kv[i][1] = key THEN <<key, value>> ELSE kv[i]]
    ELSE Append(kv, <<key, value>>)

KeysOf(kv) == [i \in 1..Len(kv) |-> kv[i][1]]

ExtractSuffixes == {".json", ".yaml", ".yml"}

\* lines 444-457: one entry per extracted item
NarrativeAsset(project, category, f, item) ==
    [name |-> item.id,
     path |-> f.path,
     absolutePath |-> project.basePath \o "/" \o f.path,
     reviewType |-> category.reviewType,
     contentType |-> item.type,
     text |-> item.text,
     context |-> item.context,
     speaker |-> IF "speaker" \in DOMAIN item THEN item.speaker ELSE VStr(""),
     hintLevel |-> IF "hintLevel" \in DOMAIN item THEN VInt(item.hintLevel) ELSE VNone,
     flavorCategory |-> IF "flavorCategory" \in DOMAIN item
                        THEN VStr(item.flavorCategory) ELSE VNone,
     week |-> IF "week" \in DOMAIN item THEN item.week ELSE VNone,
     size |-> get_file_info(f).size,
     modified |-> get_file_info(f).modified,
     hash |-> get_file_info(f).hash,
     dimensions |-> get_file_info(f).dimensions]

\* lines 460-467: the file-level entry of a content file without items
FallbackAsset(project, category, f) ==
    [name |-> f.stem \o f.suffix,
     path |-> f.path,
     absolutePath |-> project.basePath \o "/" \o f.path,
     reviewType |-> category.reviewType,
     contentType |-> "file",
     size |-> get_file_info(f).size,
     modified |-> get_file_info(f).modified,
     hash |-> get_file_info(f).hash,
     dimensions |-> get_file_info(f).dimensions]

\* lines 469-475: the entry of any other file
PlainAsset(project, category, f) ==
    [name |-> f.stem \o f.suffix,
     path |-> f.path,
     absolutePath |-> project.basePath \o "/" \o f.path,
     reviewType |-> category.reviewType,
     size |-> get_file_info(f).size,
     modified |-> get_file_info(f).modified,
     hash |-> get_file_info(f).hash,
     dimensions |-> get_file_info(f).dimensions]

\* lines 443-456: one entry per item of narrative_items
NarrativeAssets(project, category, f, narrative_items) ==
    [i \in 1..Len(narrative_items) |->
        NarrativeAsset(project, category, f, narrative_items[i])]

\* lines 441-465: the entries of a content file
ContentAssets(project, category, f, narrative_items) ==
    IF narrative_items # <<>>
    THEN NarrativeAssets(project, category, f, narrative_items)
    ELSE <<FallbackAsset(project, category, f)>>

FileAssetsNoFallback(project, category, f) ==
    IF category.extractContent /\ f.suffix \in ExtractSuffixes
    THEN NarrativeAssets(project, category, f, extract_narrative_items(f))
    ELSE <<PlainAsset(project, category, f)>>

\* lines 439-475: what one file appends to assets
FileAssets(project, category, f) ==
    IF category.extractContent /\ f.suffix \in ExtractSuffixes
    THEN ContentAssets(project, category, f, extract_narrative_items(f))
    ELSE <<PlainAsset(project, category, f)>>

\* lines 427-475: the loop over the category's files fs. raisedAt is the
\* index of the file whose probe raised, 0 when the loop ran to its end.
RECURSIVE BuildAssets(_, _, _, _, _)
BuildAssets(project, category, fs, k, as) ==
    IF k > Len(fs) THEN [files |-> fs, assets |-> as, raisedAt |-> 0]
    ELSE IF ProbeRaises(fs[k]) THEN [files |-> fs, assets |-> as, raisedAt |-> k]
    ELSE BuildAssets(project, category, fs, k + 1,
                     as \o FileAssets(project, category, fs[k]))

CategoryRecord(category, as) ==
    [path |-> category.path,
     reviewType |-> category.reviewType,
     extractContent |-> category.extractContent,
     assets |-> as,
     count |-> Len(as)]

WithCategoryAlways(pd, category, fs, as) ==
    [pd EXCEPT !.categories = DictSet(@, category.key, CategoryRecord(category, as)),
               !.totalAssets = @ + Len(as)]

\* lines 429-430 and 477-485: project_data after one category
WithCategory(pd, category, fs, as) ==
    IF fs = <<>> THEN pd                     \* if not files: continue
    ELSE IF as # <<>>                        \* if assets:
    THEN [pd EXCEPT !.categories = DictSet(@, category.key, CategoryRecord(category, as)),
                    !.totalAssets = @ + Len(as)]
    ELSE pd

\* line 486: what the category adds to total_assets
AddedToTotal(fs, as) == IF fs = <<>> THEN 0 ELSE Len(as)

SkipStopsTheLoop(i) == Len(projects) + 1

\* `continue`: on to the next requested key
AfterSkip(i) == i + 1

\* json.dump(manifest, f) raises TypeError on a value it cannot serialise
AssetSerialisable(a) ==
    "text" \in DOMAIN a => Serialisable(a.text) /\ Serialisable(a.speaker)

ManifestSerialisable(m) ==
    \A p \in 1..Len(m.projects) :
        \A c \in 1..Len(m.projects[p][2].categories) :
            \A a \in 1..Len(m.projects[p][2].categories[c][2].assets) :
                AssetSerialisable(m.projects[p][2].categories[c][2].assets[a])

\* --- the run ---
ExtractIdle ==
    /\ filepath = Unparseable("none", "")
    /\ filepath2 = Unparseable("none", "")
    /\ items = <<>>
    /\ items2 = <<>>
    /\ raised = FALSE
    /\ epc = "idle"

\* --project values: argparse accepts the catalog keys and "all"
ArgChoices == {"spellengine", "hashchampions", "all"}
ArgValues == ArgChoices \cup {"dreadcitadel"}

\* keys a caller may put in generate_manifest's list
RequestKeys == {"spellengine", "hashchampions", "dreadcitadel"}

Init ==
    /\ ExtractIdle
    /\ ServerIdle
    /\ pc = "start"
    /\ argv = "none"
    /\ projects = <<>>
    /\ pidx = 0
    /\ cidx = 0
    /\ files = <<>>
    /\ fidx = 0
    /\ assets = <<>>
    /\ project_data = <<>>
    /\ manifest = [projects |-> <<>>]
    /\ total_assets = 0
    /\ disk \in Disks
    /\ output = "prior"

\* main, lines 496-505: argparse rejects a --project outside its choices
\* and exits with status 2
MainRejectsArgs ==
    /\ pc = "start"
    /\ \E a \in ArgValues \ ArgChoices :
        /\ argv' = a
        /\ pc' = "exit2"
    /\ UNCHANGED <<projects, pidx, cidx, files, fidx, assets, project_data, manifest,
                   total_assets, disk, output>>
    /\ UNCHANGED evars
    /\ UNCHANGED svars

\* main, lines 505-514, and generate_manifest, lines 395-405
MainCallsGenerate ==
    /\ pc = "start"
    /\ \E a \in ArgChoices :
        /\ argv' = a
        /\ projects' = IF a = "all" THEN ProjectKeys ELSE <<a>>
    /\ pidx' = 1
    /\ pc' = "project"
    /\ UNCHANGED <<cidx, files, fidx, assets, project_data, manifest, total_assets,
                   disk, output>>
    /\ UNCHANGED evars
    /\ UNCHANGED svars

\* generate_manifest called with a list of its caller's choosing
DirectCall ==
    /\ pc = "start"
    /\ \E l \in SeqsUpTo(RequestKeys, MaxRequested) : projects' = l
    /\ pidx' = 1
    /\ pc' = "project"
    /\ UNCHANGED <<argv, cidx, files, fidx, assets, project_data, manifest, total_assets,
                   disk, output>>
    /\ UNCHANGED evars
    /\ UNCHANGED svars

\* lines 408-410
SkipUnknownProject ==
    /\ pc = "project"
    /\ pidx <= Len(projects)
    /\ projects[pidx] \notin DOMAIN PROJECTS
    /\ pidx' = AfterSkip(pidx)
    /\ UNCHANGED <<pc, argv, projects, cidx, files, fidx, assets, project_data, manifest,
                   total_assets, disk, output>>
    /\ UNCHANGED evars
    /\ UNCHANGED svars

\* lines 415-417
SkipMissingRoot ==
    /\ pc = "project"
    /\ pidx <= Len(projects)
    /\ projects[pidx] \in DOMAIN PROJECTS
    /\ projects[pidx] \notin disk.roots
    /\ pidx' = AfterSkip(pidx)
    /\ UNCHANGED <<pc, argv, projects, cidx, files, fidx, assets, project_data, manifest,
                   total_assets, disk, output>>
    /\ UNCHANGED evars
    /\ UNCHANGED svars

\* lines 419-424
BeginProject ==
    /\ pc = "project"
    /\ pidx <= Len(projects)
    /\ projects[pidx] \in DOMAIN PROJECTS
    /\ projects[pidx] \in disk.roots
    /\ project_data' = [name |-> PROJECTS[projects[pidx]].name,
                        basePath |-> PROJECTS[projects[pidx]].basePath,
                        categories |-> <<>>,
                        totalAssets |-> 0]
    /\ cidx' = 1
    /\ pc' = "category"
    /\ UNCHANGED <<argv, projects, pidx, files, fidx, assets, manifest, total_assets,
                   disk, output>>
    /\ UNCHANGED evars
    /\ UNCHANGED svars

\* lines 426-427: the loop over the categories has a category left
CategoryPending ==
    /\ pc = "category"
    /\ cidx <= Len(PROJECTS[projects[pidx]].categories)

\* line 426: the category the loop is at
CurrentCategory == PROJECTS[projects[pidx]].categories[cidx]

\* lines 427-475: the files of the current category and what the loop over
\* them builds
CategoryRun ==
    BuildAssets(PROJECTS[projects[pidx]], CurrentCategory,
                scan_directory(disk, projects[pidx], CurrentCategory), 1, <<>>)

\* lines 426-486: one iteration of the loop over the categories, every probe
\* of its files succeeding
ScanCategory ==
    /\ CategoryPending
    /\ \E run \in {CategoryRun} :
           /\ run.raisedAt = 0
           /\ files' = run.files
           /\ assets' = run.assets
           /\ fidx' = 0
           /\ project_data' = WithCategory(project_data, CurrentCategory, run.files,
                                           run.assets)
           /\ total_assets' = total_assets + AddedToTotal(run.files, run.assets)
    /\ cidx' = cidx + 1
    /\ UNCHANGED <<pc, argv, projects, pidx, manifest, disk, output>>
    /\ UNCHANGED evars
    /\ UNCHANGED svars

\* line 437: get_file_info raises on a discovered file; nothing catches it
ProbeFails ==
    /\ CategoryPending
    /\ \E run \in {CategoryRun} :
           /\ run.raisedAt # 0
           /\ files' = run.files
           /\ assets' = run.assets
           /\ fidx' = run.raisedAt
    /\ pc' = "probe_error"
    /\ UNCHANGED <<argv, projects, pidx, cidx, project_data, manifest, total_assets,
                   disk, output>>
    /\ UNCHANGED evars
    /\ UNCHANGED svars

\* line 488
FinishProject ==
    /\ pc = "category"
    /\ cidx > Len(PROJECTS[projects[pidx]].categories)
    /\ manifest' = [manifest EXCEPT
                       !.projects = DictSet(@, projects[pidx], project_data)]
    /\ pidx' = pidx + 1
    /\ pc' = "project"
    /\ UNCHANGED <<argv, projects, cidx, files, fidx, assets, project_data, total_assets,
                   disk, output>>
    /\ UNCHANGED evars
    /\ UNCHANGED svars

\* lines 490-492
ReturnManifest ==
    /\ pc = "project"
    /\ pidx > Len(projects)
    /\ manifest' = [projects |-> manifest.projects, totalAssets |-> total_assets]
    /\ pc' = IF argv = "none" THEN "returned" ELSE "assembled"
    /\ UNCHANGED <<argv, projects, pidx, cidx, files, fidx, assets, project_data,
                   total_assets, disk, output>>
    /\ UNCHANGED evars
    /\ UNCHANGED svars

\* line 518: open(output_path, 'w') truncates the manifest file
OpenOutput ==
    /\ pc = "assembled"
    /\ output' = "empty"
    /\ pc' = "dump"
    /\ UNCHANGED <<argv, projects, pidx, cidx, files, fidx, assets, project_data, manifest,
                   total_assets, disk>>
    /\ UNCHANGED evars
    /\ UNCHANGED svars

\* line 519: json.dump writes chunk after chunk to the buffered file; a full
\* buffer is flushed to the file before the dump is over
FlushOutput ==
    /\ pc = "dump"
    /\ output = "empty"
    /\ output' = "partial"
    /\ UNCHANGED <<pc, argv, projects, pidx, cidx, files, fidx, assets, project_data,
                   manifest, total_assets, disk>>
    /\ UNCHANGED evars
    /\ UNCHANGED svars

\* line 519: json.dump writes the manifest
DumpManifest ==
    /\ pc = "dump"
    /\ ManifestSerialisable(manifest)
    /\ output' = "manifest"
    /\ pc' = "done"
    /\ UNCHANGED <<argv, projects, pidx, cidx, files, fidx, assets, project_data, manifest,
                   total_assets, disk>>
    /\ UNCHANGED evars
    /\ UNCHANGED svars

\* line 519: json.dump raises part-way through on a value it cannot serialise
DumpFails ==
    /\ pc = "dump"
    /\ ~ManifestSerialisable(manifest)
    /\ output' = "partial"
    /\ pc' = "dump_error"
    /\ UNCHANGED <<argv, projects, pidx, cidx, files, fidx, assets, project_data, manifest,
                   total_assets, disk>>
    /\ UNCHANGED evars
    /\ UNCHANGED svars

Next ==
    \/ MainRejectsArgs
    \/ MainCallsGenerate
    \/ DirectCall
    \/ SkipUnknownProject
    \/ SkipMissingRoot
    \/ BeginProject
    \/ ScanCategory
    \/ ProbeFails
    \/ FinishProject
    \/ ReturnManifest
    \/ OpenOutput
    \/ FlushOutput
    \/ DumpManifest
    \/ DumpFails

Spec == Init /\ [][Next]_vars

\* ------------------------------------------------------------------------
\* The server answering GET /manifest.json while main runs
\* ------------------------------------------------------------------------
\* the request path of the manifest
ManifestRequest == <<"/", "manifest.json">>

\* main, lines 516-517: Path(__file__).parent / args.output, --output at its
\* default
OutputPath == REVIEW_DIR \o <<"manifest.json">>

\* server.py lines 27-40 and the handler's read of the translated path: the
\* server opens the file and sends what it holds at that moment
ServeManifest ==
    /\ request' = ManifestRequest
    /\ translated' = translate_path(ManifestRequest)
    /\ body' = IF translate_path(ManifestRequest) = OutputPath THEN output ELSE "other"
    /\ UNCHANGED gvars
    /\ UNCHANGED evars

\* a run of main (argparse admits no unknown key) with the server running
NextRace ==
    \/ MainRejectsArgs
    \/ MainCallsGenerate
    \/ SkipMissingRoot
    \/ BeginProject
    \/ ScanCategory
    \/ ProbeFails
    \/ FinishProject
    \/ ReturnManifest
    \/ OpenOutput
    \/ FlushOutput
    \/ DumpManifest
    \/ DumpFails
    \/ ServeManifest

SpecRace == Init /\ [][NextRace]_vars

\* ------------------------------------------------------------------------
\* Claims about generate_manifest and main (checked under Spec)
\* ------------------------------------------------------------------------
RECURSIVE SumSeq(_)
SumSeq(ns) == IF ns = <<>> THEN 0 ELSE Head(ns) + SumSeq(Tail(ns))

Range(seq) == {seq[i] : i \in 1..Len(seq)}

\* generate_manifest has returned its manifest
Returned == pc \in {"returned", "assembled", "dump", "done", "dump_error"}

CategoryCounts(pd) == [c \in 1..Len(pd.categories) |-> pd.categories[c][2].count]
ProjectTotals(m) == [p \in 1..Len(m.projects) |-> m.projects[p][2].totalAssets]

\* C1: in every manifest generate_manifest returns, for any requested list,
\* totalAssets is the sum of the projects' totalAssets, each project's
\* totalAssets is the sum of its categories' counts, and each count is the
\* length of the category's assets list.
C1_TotalsAgree ==
    Returned =>
        /\ manifest.totalAssets = SumSeq(ProjectTotals(manifest))
        /\ \A p \in 1..Len(manifest.projects) :
            LET pd == manifest.projects[p][2]
            IN  /\ pd.totalAssets = SumSeq(CategoryCounts(pd))
                /\ \A c \in 1..Len(pd.categories) :
                       pd.categories[c][2].count = Len(pd.categories[c][2].assets)

\* the category's directory is missing, or there but without a matching file
NoFiles(project_key, cat_key) ==
    \/ <<project_key, cat_key>> \notin disk.dirs
    \/ Candidates(project_key, cat_key) \cap disk.files = {}

CategoryOf(project_key, i) == PROJECTS[project_key].categories[i]

\* C6: a category whose directory does not exist, or exists without a
\* matching file, is absent from the project's categories mapping, and its
\* scan leaves the project's totalAssets and the grand total as they were.
C6_EmptyCategoryAbsent ==
    /\ [](\A p \in 1..Len(manifest.projects) :
             \A c \in CategoryKeys(manifest.projects[p][1]) :
                 NoFiles(manifest.projects[p][1], c)
                     => c \notin Range(KeysOf(manifest.projects[p][2].categories)))
    /\ [][(pc = "category" /\ cidx' = cidx + 1
             /\ NoFiles(projects[pidx], CategoryOf(projects[pidx], cidx).key))
            => /\ project_data'.categories = project_data.categories
               /\ project_data'.totalAssets = project_data.totalAssets
               /\ total_assets' = total_assets]_vars

\* a returned project with an emitted category, one category directory that
\* exists without files, and the other directories missing
C6_Witness ==
    /\ pc = "returned"
    /\ <<"spellengine", "music">> \in disk.dirs
    /\ \E p \in 1..Len(manifest.projects) :
        /\ manifest.projects[p][1] = "spellengine"
        /\ KeysOf(manifest.projects[p][2].categories) = <<"encounters">>
        /\ manifest.totalAssets > 0

\* what C7 compares of an entry: its name, whether it is an item entry, and
\* the file it carries the metadata of
EntrySummary(a) ==
    [name |-> a.name, item |-> "text" \in DOMAIN a, path |-> a.path, size |-> a.size,
     modified |-> a.modified, hash |-> a.hash, dimensions |-> a.dimensions]

\* the entries the claim lists for one discovered file
ExpectedEntries(category, f) ==
    LET its == extract_narrative_items(f)
        meta == get_file_info(f)
    IN  IF category.extractContent /\ f.suffix \in {".json", ".yaml", ".yml"} /\ Len(its) >= 1
        THEN [i \in 1..Len(its) |->
                 [name |-> its[i].id, item |-> TRUE, path |-> f.path, size |-> meta.size,
                  modified |-> meta.modified, hash |-> meta.hash,
                  dimensions |-> meta.dimensions]]
        ELSE << [name |-> f.stem \o f.suffix, item |-> FALSE, path |-> f.path,
                 size |-> meta.size, modified |-> meta.modified, hash |-> meta.hash,
                 dimensions |-> meta.dimensions] >>

Max(a, b) == IF a >= b THEN a ELSE b

ExpectedCount(category, f) ==
    IF category.extractContent /\ f.suffix \in {".json", ".yaml", ".yml"}
    THEN Max(1, Len(extract_narrative_items(f)))
    ELSE 1

CatalogCategory(project_key, cat_key) ==
    LET cs == PROJECTS[project_key].categories
    IN  cs[CHOOSE i \in 1..Len(cs) : cs[i].key = cat_key]

\* C7: in an emitted category every discovered file appends its n >= 1
\* extracted items as n entries, in extraction order, each with the file's
\* metadata, or else exactly one file-level entry; the count is the sum over
\* the files of max(1, items) for extracting files and 1 for the others.
C7_EntriesPerFile ==
    \A p \in 1..Len(manifest.projects) :
        LET k == manifest.projects[p][1]
            cats == manifest.projects[p][2].categories
        IN  \A c \in 1..Len(cats) :
                LET category == CatalogCategory(k, cats[c][1])
                    fs == SortedFiles(Candidates(k, cats[c][1]) \cap disk.files)
                    as == cats[c][2].assets
                IN  /\ [i \in 1..Len(as) |-> EntrySummary(as[i])]
                         = Concat([i \in 1..Len(fs) |-> ExpectedEntries(category, fs[i])])
                    /\ cats[c][2].count
                         = SumSeq([i \in 1..Len(fs) |-> ExpectedCount(category, fs[i])])

\* a category with a file that yields items and a file that yields none
C7_Witness ==
    /\ pc = "returned"
    /\ \E p \in 1..Len(manifest.projects) :
        \E c \in 1..Len(manifest.projects[p][2].categories) :
            LET as == manifest.projects[p][2].categories[c][2].assets
            IN  /\ Len(as) = 3
                /\ as[1].name = "broken.yaml"
                /\ as[2].name = "encounter_gate_intro"
                /\ as[3].name = "dialogue_gate_1"

\* the requested keys generate_manifest does not skip
Processed(key) == key \in DOMAIN PROJECTS /\ key \in disk.roots

RECURSIVE Dedup(_)
Dedup(seq) ==
    IF seq = <<>> THEN <<>>
    ELSE LET front == Dedup(SubSeq(seq, 1, Len(seq) - 1))
         IN  IF seq[Len(seq)] \in Range(front) THEN front
             ELSE Append(front, seq[Len(seq)])

ManifestTotalOf(key) ==
    manifest.projects[CHOOSE p \in 1..Len(manifest.projects) :
                          manifest.projects[p][1] = key][2].totalAssets

\* C9: for any requested list, the keys outside the catalog and the projects
\* without a root are skipped and the others are all processed: the projects
\* mapping holds exactly the other requested keys, in requested order, and
\* the grand total is made of the processed requests alone.
C9_SkipsAndGoesOn ==
    Returned =>
        /\ KeysOf(manifest.projects) = Dedup(SelectSeq(projects, Processed))
        /\ manifest.totalAssets
             = SumSeq([i \in 1..Len(projects) |->
                          IF Processed(projects[i]) THEN ManifestTotalOf(projects[i])
                          ELSE 0])

\* a skipped key first, then a project that is processed and has assets
C9_Witness ==
    /\ pc = "returned"
    /\ Len(projects) = 2
    /\ projects[1] = "dreadcitadel"
    /\ KeysOf(manifest.projects) = <<projects[2]>>
    /\ manifest.totalAssets > 0

\* the run is over
Terminal == pc \in {"done", "returned", "exit2", "probe_error", "dump_error"}

RunMeasure ==
    (CASE pc = "start" -> 0
       [] pc \in {"project", "category"} -> 1
       [] pc = "assembled" -> 2
       [] pc = "dump" -> 3
       [] OTHER -> 4) * 10000
    + pidx * 100
    + (IF pc = "category" THEN cidx ELSE 0)
    + (IF output = "partial" THEN 1 ELSE 0)

\* the actions outside the loop over a category's files
StepOutsideCategory ==
    \/ MainRejectsArgs
    \/ MainCallsGenerate
    \/ DirectCall
    \/ SkipUnknownProject
    \/ SkipMissingRoot
    \/ BeginProject
    \/ FinishProject
    \/ ReturnManifest
    \/ OpenOutput
    \/ FlushOutput
    \/ DumpManifest
    \/ DumpFails

\* the run can take a step
CanStep ==
    \/ ENABLED StepOutsideCategory
    \/ CategoryPending /\ \E run \in {CategoryRun} : run.raisedAt \in 0..Len(run.files)

\* every file on the disk can be read and holds only values json can write
DiskReadableAndSerialisable ==
    \A f \in disk.files : f.readable /\ (f.parse = "ok" => Serialisable(f.data))

UrlTokens == {"/", "..", "SpellEngine", "HashChampions", "a", "%2F", "%2e%2e"}

RequestPaths == {<<"/">> \o t : t \in SeqsUpTo(UrlTokens, MaxTokens)}

InitTranslate ==
    /\ request \in RequestPaths
    /\ translated = <<>>
    /\ body = "none"
    /\ ExtractIdle
    /\ GenIdle

\* send_head: path = self.translate_path(self.path), then the file at that
\* path is opened
TranslateCall ==
    /\ body = "none"
    /\ translated' = translate_path(request)
    /\ body' = "file"
    /\ UNCHANGED request
    /\ UNCHANGED gvars
    /\ UNCHANGED evars

NextTranslate == TranslateCall

SpecTranslate == InitTranslate /\ [][NextTranslate]_vars

\* ------------------------------------------------------------------------
\* Claims about the server (checked under SpecRace and SpecTranslate)
\* ------------------------------------------------------------------------
\* C12: a server read of the manifest file that interleaves with main's
\* write observes the complete prior manifest or the complete new one, never
\* an empty or partially written document.
C12_ReaderSeesWholeManifest ==
    request = ManifestRequest => body \in {"prior", "manifest"}

\* the project roots whose URL prefix the path starts with
MatchingRoots(path) ==
    {k \in 1..Len(PROJECT_ROOTS) : StartsWith(path, PROJECT_ROOTS[k].url_prefix)}

\* the place the operating system finds at a path: ".." steps up
Location(path) == NormPath(path, 1, <<>>)

\* C13: a request path that starts with a registered project URL prefix is
\* translated to a place inside the root of the first matching prefix, also
\* when its remainder holds ".." segments or begins with "/".
C13_StaysInsideRoot ==
    (body = "file" /\ MatchingRoots(request) # {}) =>
        LET k == CHOOSE i \in MatchingRoots(request) :
                     \A j \in MatchingRoots(request) : i <= j
        IN  StartsWith(Location(translated), PROJECT_ROOTS[k].fs_root)

====
